---- MODULE Spec2Model ----
(***************************************************************************)
(* Model of the bot detector: the JSONL event history store                *)
(* (storage/jsonl_handler.py), the four rule components                    *)
(* (detectors/*.py) and the orchestration engine                           *)
(* (detectors/rule_engine.py).                                             *)
(*                                                                         *)
(* Conventions.                                                            *)
(*  - A Python dict is a TLA+ record; `k in d` is  k \in DOMAIN d.         *)
(*  - A value of an optional field is wrapped: Null is Python's None,      *)
(*    Val(x) is the value x.  A missing key is a missing record field.     *)
(*  - A Python str that the code inspects character by character           *)
(*    (strip, lower, substring) is a sequence of one-character strings.    *)
(*  - Confidences are integers in hundredths (95 is 0.95).                 *)
(*  - A file is the sequence of the pieces written to it.  One record's    *)
(*    line (json.dumps(data) + '\n') reaches the file in Pieces pieces,    *)
(*    the last of which ends with the newline.                             *)
(***************************************************************************)
EXTENDS Integers, Sequences, FiniteSets, TLC

VARIABLES
    files,       \* JSONLHandler.files: collection key -> pieces in the file
    lock,        \* JSONLHandler.lock: 0 when free, else the writer holding it
    wpc,         \* per append call: position in JSONLHandler.append
    wkey,        \* per append call: the file_key argument
    wdata,       \* per append call: the data argument
    wpos,        \* per append call: pieces of the line written so far
    wsnap,       \* per append call: the file as it was when the call took the lock
    wret,        \* per append call: how the last call ended
    appendsLeft, \* append calls the environment will still make
    rout,        \* the last read: operation, arguments and what it returned
    pc,          \* analyze_session: the check the call has reached
    arg_session_id, \* analyze_session: the session_id argument
    arg_login_data, \* analyze_session: the login_data argument
    started,     \* the events and sessions files as they were when the call began
    res,         \* analyze_session: what each check returned
    flags,       \* analyze_session: the local list of triggered flags
    verdict,     \* what the call returned
    now,         \* the clock, as last read
    prev,        \* the previous call: its arguments, files and outcome
    runsLeft     \* calls of analyze_session the environment will still make

storeVars == <<files, lock, wpc, wkey, wdata, wpos, wsnap, wret, appendsLeft, rout>>

engineVars == <<pc, arg_session_id, arg_login_data, started, res, flags, verdict, now, prev, runsLeft>>

vars == <<files, lock, wpc, wkey, wdata, wpos, wsnap, wret, appendsLeft, rout,
          pc, arg_session_id, arg_login_data, started, res, flags, verdict, now, prev, runsLeft>>

-----------------------------------------------------------------------------
(* Bounds *)

Pieces      == 2   \* pieces in which one line reaches the file
NumWriters  == 2   \* concurrent append calls
MaxAppends  == 3   \* append calls per behaviour of the store
MaxLines    == 2   \* lines in the events file when the store starts
MaxLimit    == 2   \* largest limit passed to read_all
MaxMoves    == 10  \* pointer-move events in the longest cursor trace
MaxIngest   == 1   \* append calls made while the engine analyses
MaxRuns     == 2   \* calls of analyze_session per behaviour
MaxClock    == 1   \* latest reading of the clock

-----------------------------------------------------------------------------
(* Optional values *)

Null   == [null |-> TRUE]
Val(x) == [v |-> x]
IsNull(f) == "null" \in DOMAIN f

\* d.get(k, default)
Get(d, k, default) == IF k \in DOMAIN d THEN d[k] ELSE default

-----------------------------------------------------------------------------
(* Files, lines and JSON *)

FileKeys == {"events", "sessions", "logins", "flags"}

\* A dict holding a value json.dumps cannot encode (TypeError).
Unserializable == [session_id |-> Val("s1"), payload |-> "pyobject"]

Serializable(data) == "payload" \notin DOMAIN data

\* json.dumps(data) + '\n', as the pieces in which it reaches the file.
json_dumps_line(data) == [k \in 1..Pieces |-> [data |-> data, part |-> k]]

\* An empty line and a line that is not JSON, as found in a file.
BlankLine == <<[blank |-> TRUE, part |-> Pieces]>>
JunkLine  == <<[junk |-> TRUE, part |-> Pieces]>>

\* The piece ends with '\n'.
EndsLine(piece) == piece.part = Pieces

\* `async for line in f`: the lines of the file, in order; a last line
\* that has no newline yet is yielded too.
RECURSIVE SplitLines(_, _)
SplitLines(content, cur) ==
    IF content = <<>>
    THEN IF cur = <<>> THEN <<>> ELSE <<cur>>
    ELSE IF EndsLine(Head(content))
         THEN <<Append(cur, Head(content))>> \o SplitLines(Tail(content), <<>>)
         ELSE SplitLines(Tail(content), Append(cur, Head(content)))

Lines(content) == SplitLines(content, <<>>)

\* line.strip() is empty
IsBlank(line) == line = BlankLine

\* json.loads(line) succeeds: the line is exactly one dumped dict.
Decodes(line) ==
    /\ Len(line) = Pieces
    /\ \A k \in 1..Pieces : /\ "data" \in DOMAIN line[k]
                            /\ line[k].part = k
                            /\ line[k].data = line[1].data

json_loads(line) == line[1].data

-----------------------------------------------------------------------------
(* JSONLHandler.read_all and JSONLHandler.get_session_events *)

\* `if limit and ...`: None and 0 are both false.
Truthy(limit) == ~IsNull(limit) /\ limit.v # 0

RECURSIVE read_all_scan(_, _, _)
read_all_scan(lines, limit, records) ==
    IF lines = <<>> THEN records
    ELSE LET line == Head(lines) IN
         IF IsBlank(line) THEN read_all_scan(Tail(lines), limit, records)
         ELSE IF Decodes(line)
              THEN LET more == Append(records, json_loads(line)) IN
                   IF Truthy(limit) /\ Len(more) >= limit.v
                   THEN more
                   ELSE read_all_scan(Tail(lines), limit, more)
              ELSE read_all_scan(Tail(lines), limit, records)

\* read_all(file_key, limit) on a file with this content.
read_all(content, limit) == read_all_scan(Lines(content), limit, <<>>)

RECURSIVE get_session_events_scan(_, _, _, _)
get_session_events_scan(lines, session_id, event_type, filtered) ==
    IF lines = <<>> THEN filtered
    ELSE LET line == Head(lines) IN
         IF IsBlank(line)
         THEN get_session_events_scan(Tail(lines), session_id, event_type, filtered)
         ELSE IF Decodes(line)
              THEN LET event == json_loads(line) IN
                   IF /\ Get(event, "session_id", Null) = Val(session_id)
                      /\ \/ IsNull(event_type)
                         \/ Get(event, "event_type", Null) = event_type
                   THEN get_session_events_scan(Tail(lines), session_id, event_type,
                                                Append(filtered, event))
                   ELSE get_session_events_scan(Tail(lines), session_id, event_type,
                                                filtered)
              ELSE get_session_events_scan(Tail(lines), session_id, event_type, filtered)

\* The event type is compared even when the caller passed none.
get_session_events_AlwaysTyped(content, session_id, event_type) ==
    SelectSeq(get_session_events_scan(Lines(content), session_id, Null, <<>>),
              LAMBDA e : Get(e, "event_type", Null) = event_type)

\* get_session_events(session_id, event_type) on an events file with this content.
get_session_events(content, session_id, event_type) ==
    get_session_events_scan(Lines(content), session_id, event_type, <<>>)

-----------------------------------------------------------------------------
(* Inputs of the store *)

Writers == 1..NumWriters

SessionIds == {"s1", "s2"}

\* Behaviour events as the ingestion path stores them.
Ev(sid, type) == [session_id |-> Val(sid), event_type |-> Val(type)]

StoreEvents == {Ev("s1", "mousemove"), Ev("s1", "click"), Ev("s2", "mousemove"),
                [session_id |-> Val("s1")]}

\* The file keys callers pass: valid ones and one the handler does not know.
KeyPool == {"events", "audit"}

AppendPool(key) ==
    IF key = "events"
    THEN {[session_id |-> Val("s1"), event_type |-> Val("mousemove"),
           timestamp |-> Val(0), is_honeypot |-> Val(TRUE)],
          Unserializable}
    ELSE {[session_id |-> Val("s1")]}

\* The lines an events file may hold when the store starts.
LinePool == {json_dumps_line(e) : e \in StoreEvents} \cup {BlankLine, JunkLine}

RECURSIVE Flatten(_)
Flatten(ls) == IF ls = <<>> THEN <<>> ELSE Head(ls) \o Flatten(Tail(ls))

StoreLogs == {Flatten(ls) : ls \in UNION {[1..n -> LinePool] : n \in 0..MaxLines}}

Limits == {Null} \cup {Val(n) : n \in 0..MaxLimit}

NoRead == [op |-> "none"]

NoRun == [ran |-> FALSE]

\* No call of analyze_session has been made.
EngineIdle ==
    /\ pc = "idle"
    /\ arg_session_id = "s1"
    /\ arg_login_data = [time_to_submit |-> 0]
    /\ started = <<>>
    /\ res = <<>>
    /\ flags = <<>>
    /\ verdict = NoRun
    /\ now = 0
    /\ prev = NoRun

StoreInit ==
    /\ files \in {[k \in FileKeys |-> IF k = "events" THEN log ELSE <<>>] : log \in StoreLogs}
    /\ lock = 0
    /\ wpc = [w \in Writers |-> "idle"]
    /\ wkey = [w \in Writers |-> "events"]
    /\ wdata = [w \in Writers |-> Unserializable]
    /\ wpos = [w \in Writers |-> 0]
    /\ wsnap = [w \in Writers |-> <<>>]
    /\ wret = [w \in Writers |-> "none"]
    /\ appendsLeft = MaxAppends
    /\ rout = NoRead
    /\ EngineIdle
    /\ runsLeft = 0

-----------------------------------------------------------------------------
(* JSONLHandler.append, one action per step between two awaits *)

\* append(file_key, data) is called; an unknown key raises ValueError.
AppendCall(w, key, data) ==
    /\ wpc[w] = "idle"
    /\ \A v \in Writers : v < w => wpc[v] # "idle"   \* calls are numbered as they arrive
    /\ appendsLeft > 0
    /\ appendsLeft' = appendsLeft - 1
    /\ wkey' = [wkey EXCEPT ![w] = key]
    /\ wdata' = [wdata EXCEPT ![w] = data]
    /\ wpos' = [wpos EXCEPT ![w] = 0]
    /\ wsnap' = [wsnap EXCEPT ![w] = <<>>]
    /\ IF key \notin FileKeys
       THEN /\ wret' = [wret EXCEPT ![w] = "ValueError"]
            /\ wpc' = wpc
       ELSE /\ wret' = [wret EXCEPT ![w] = "none"]
            /\ wpc' = [wpc EXCEPT ![w] = "lock"]
    /\ UNCHANGED <<files, lock, rout, engineVars>>

\* The lock is taken without waiting for its holder.
LockIsFree_NoWait(w) == TRUE

LockIsFree(w) == lock = 0

\* `async with self.lock`: the call goes on once it holds the lock.
AcquireLock(w) ==
    /\ wpc[w] = "lock"
    /\ LockIsFree(w)
    /\ lock' = w
    /\ wsnap' = [wsnap EXCEPT ![w] = files[wkey[w]]]
    /\ wpc' = [wpc EXCEPT ![w] = "open"]
    /\ UNCHANGED <<files, wkey, wdata, wpos, wret, appendsLeft, rout, engineVars>>

\* aiofiles.open(filepath, mode='a') succeeds.
OpenFile(w) ==
    /\ wpc[w] = "open"
    /\ wpc' = [wpc EXCEPT ![w] = "write"]
    /\ UNCHANGED <<files, lock, wkey, wdata, wpos, wsnap, wret, appendsLeft, rout, engineVars>>

\* The exception is not caught and reaches the caller.
ReturnFalse_Uncaught(w) ==
    /\ wret' = [wret EXCEPT ![w] = "OSError"]
    /\ wpc' = [wpc EXCEPT ![w] = "idle"]
    /\ lock' = 0
    /\ UNCHANGED <<files, wkey, wdata, wpos, wsnap, appendsLeft, rout, engineVars>>

\* The except branch: print, return False; leaving the with block frees the lock.
ReturnFalse(w) ==
    /\ wret' = [wret EXCEPT ![w] = "false"]
    /\ wpc' = [wpc EXCEPT ![w] = "idle"]
    /\ lock' = 0
    /\ UNCHANGED <<files, wkey, wdata, wpos, wsnap, appendsLeft, rout, engineVars>>

\* aiofiles.open raises (OSError): nothing has been written.
OpenFails(w) ==
    /\ wpc[w] = "open"
    /\ ReturnFalse(w)

\* json.dumps(data) raises TypeError before f.write is called.
DumpFails(w) ==
    /\ wpc[w] = "write"
    /\ wpos[w] = 0
    /\ ~Serializable(wdata[w])
    /\ ReturnFalse(w)

\* f.write(...): the next piece of the line reaches the file.
WritePiece(w) ==
    /\ wpc[w] = "write"
    /\ Serializable(wdata[w])
    /\ wpos[w] < Pieces
    /\ files' = [files EXCEPT ![wkey[w]] = Append(@, json_dumps_line(wdata[w])[wpos[w] + 1])]
    /\ wpos' = [wpos EXCEPT ![w] = @ + 1]
    /\ wpc' = [wpc EXCEPT ![w] = IF wpos[w] + 1 = Pieces THEN "close" ELSE "write"]
    /\ UNCHANGED <<lock, wkey, wdata, wsnap, wret, appendsLeft, rout, engineVars>>

\* The file is closed, append returns True and the lock is freed.
ReturnTrue(w) ==
    /\ wpc[w] = "close"
    /\ wret' = [wret EXCEPT ![w] = "true"]
    /\ wpc' = [wpc EXCEPT ![w] = "idle"]
    /\ lock' = 0
    /\ UNCHANGED <<files, wkey, wdata, wpos, wsnap, appendsLeft, rout, engineVars>>

append(w) ==
    \/ \E key \in KeyPool : \E data \in AppendPool(key) : AppendCall(w, key, data)
    \/ AcquireLock(w)
    \/ OpenFile(w)
    \/ OpenFails(w)
    \/ DumpFails(w)
    \/ WritePiece(w)
    \/ ReturnTrue(w)

-----------------------------------------------------------------------------
(* Reads.  A read is one pass over the file; it sees what had been written *)
(* when it reached the end of the file.                                    *)

ReadAll(key, limit) ==
    /\ rout' = IF key \notin FileKeys
               THEN [op |-> "read_all", key |-> key, limit |-> limit,
                     raised |-> "ValueError"]
               ELSE [op |-> "read_all", key |-> key, limit |-> limit,
                     result |-> read_all(files[key], limit)]
    /\ UNCHANGED <<files, lock, wpc, wkey, wdata, wpos, wsnap, wret, appendsLeft, engineVars>>

EventTypes == {Null, Val("mousemove"), Val("click")}

GetSessionEvents(sid, type) ==
    /\ rout' = [op |-> "get_session_events", session_id |-> sid, event_type |-> type,
                result |-> get_session_events(files["events"], sid, type)]
    /\ UNCHANGED <<files, lock, wpc, wkey, wdata, wpos, wsnap, wret, appendsLeft, engineVars>>

StoreNext == \E w \in Writers : append(w)

StoreSpec == StoreInit /\ [][StoreNext]_vars

\* The read operations applied to the files a store can hold: whole lines,
\* blank lines, lines that are not JSON, and the first pieces of a line
\* whose append is still in flight.
ReadLogs ==
    StoreLogs \cup {log \o SubSeq(json_dumps_line(e), 1, Pieces - 1) :
                        log \in StoreLogs, e \in StoreEvents}

ReadInit ==
    /\ files \in {[k \in FileKeys |-> IF k = "events" THEN log ELSE <<>>] : log \in ReadLogs}
    /\ lock = 0
    /\ wpc = [w \in Writers |-> "idle"]
    /\ wkey = [w \in Writers |-> "events"]
    /\ wdata = [w \in Writers |-> Unserializable]
    /\ wpos = [w \in Writers |-> 0]
    /\ wsnap = [w \in Writers |-> <<>>]
    /\ wret = [w \in Writers |-> "none"]
    /\ appendsLeft = 0
    /\ rout = NoRead
    /\ EngineIdle
    /\ runsLeft = 0

ReadNext ==
    \/ \E key \in KeyPool : \E limit \in Limits : ReadAll(key, limit)
    \/ \E sid \in SessionIds : \E type \in EventTypes : GetSessionEvents(sid, type)

ReadSpec == ReadInit /\ [][ReadNext]_vars

-----------------------------------------------------------------------------
(* Strings the detectors inspect, as sequences of characters *)

Whitespace == {" "}

\* str.strip()
RECURSIVE LStrip(_)
LStrip(str) ==
    IF str # <<>> /\ Head(str) \in Whitespace THEN LStrip(Tail(str)) ELSE str

RECURSIVE RStrip(_)
RStrip(str) ==
    IF str # <<>> /\ str[Len(str)] \in Whitespace
    THEN RStrip(SubSeq(str, 1, Len(str) - 1))
    ELSE str

Strip(str) == RStrip(LStrip(str))

UpperCase == <<"A", "B", "C", "D", "E", "F", "G", "H", "I", "J", "K", "L", "M", 
               "N", "O", "P", "Q", "R", "S", "T", "U", "V", "W", "X", "Y", "Z">>
LowerCase == <<"a", "b", "c", "d", "e", "f", "g", "h", "i", "j", "k", "l", "m", 
               "n", "o", "p", "q", "r", "s", "t", "u", "v", "w", "x", "y", "z">>

\* str.lower(), one character
LowerChar(c) ==
    IF \E i \in 1..Len(UpperCase) : UpperCase[i] = c
    THEN LowerCase[CHOOSE i \in 1..Len(UpperCase) : UpperCase[i] = c]
    ELSE c

\* str.lower()
Lower(str) == [i \in 1..Len(str) |-> LowerChar(str[i])]

\* `needle in haystack` for two str
Contains(haystack, needle) ==
    \E i \in 0..(Len(haystack) - Len(needle)) :
        SubSeq(haystack, i + 1, i + Len(needle)) = needle

-----------------------------------------------------------------------------
(* HoneypotDetector *)

honeypot_fields == <<"website", "email_confirm", "bot_field", "verify">>

\* `value and value.strip()` for an Optional[str]
Filled(value) == ~IsNull(value) /\ value.v # <<>> /\ Strip(value.v) # <<>>

FormTriggered(field, value) ==
    [is_bot |-> TRUE,
     reason |-> "Honeypot field '" \o field \o "' was filled",
     confidence |-> 100,
     rule |-> "honeypot_form",
     field |-> field,
     value_length |-> Len(value.v)]

FormClear_WithReason ==
    [is_bot |-> FALSE, reason |-> "No honeypot field filled", confidence |-> 0,
     rule |-> "honeypot_form"]

FormClear ==
    [is_bot |-> FALSE, reason |-> "", confidence |-> 0, rule |-> "honeypot_form"]

RECURSIVE check_form_from(_, _)
check_form_from(login_data, i) ==
    IF i > Len(honeypot_fields) THEN FormClear
    ELSE LET field == honeypot_fields[i]
             value == login_data[field]
         IN  IF Filled(value) THEN FormTriggered(field, value)
             ELSE check_form_from(login_data, i + 1)

\* HoneypotDetector.check_form(login_data)
check_form(login_data) == check_form_from(login_data, 1)

HoneypotTypes == {"honeypot_focus", "honeypot_filled", "honeypot_link_clicked"}

\* bool(x) of an Optional[bool] read with .get
IsTrue(flag) == ~IsNull(flag) /\ flag.v = TRUE

\* `e.get('is_honeypot') or e.get('event_type') in [...]`
IsHoneypotEvent(e) ==
    \/ IsTrue(Get(e, "is_honeypot", Null))
    \/ /\ ~IsNull(Get(e, "event_type", Null))
       /\ Get(e, "event_type", Null).v \in HoneypotTypes

\* f"{x}" of an Optional[str]
StrOf(value) == IF IsNull(value) THEN "None" ELSE value.v

\* HoneypotDetector.check_interactions, given what get_session_events returned
check_interactions(events) ==
    LET honeypot_events == SelectSeq(events, IsHoneypotEvent) IN
    IF honeypot_events # <<>>
    THEN LET first_event == honeypot_events[1] IN
         [is_bot |-> TRUE,
          reason |-> "Honeypot interaction: " \o StrOf(Get(first_event, "event_type", Null)),
          confidence |-> 100,
          rule |-> "honeypot_interaction",
          event |-> first_event]
    ELSE [is_bot |-> FALSE, reason |-> "", confidence |-> 0,
          rule |-> "honeypot_interaction"]

-----------------------------------------------------------------------------
(* BotDetectionEngine.check_submit_time *)

MIN_SUBMIT_TIME_MS == 2000

\* The elapsed times t whose confidence 1.0 - t/2000 lies, as a real number,
\* exactly halfway between two hundredths, and for which the double
\* 1.0 - t/2000 lies above that midpoint, so that round(_, 2) goes up.
HalfwayUp ==
    {130, 150, 170, 190, 210, 230, 250, 410, 430, 450, 470, 490, 570, 590,
     610, 630, 650, 670, 690, 710, 730, 950, 970, 990, 1130, 1150, 1170,
     1190, 1210, 1230, 1250, 1390, 1410, 1430, 1450, 1470, 1490, 1630,
     1650, 1670, 1690, 1710, 1730, 1890, 1910, 1930, 1950, 1970, 1990}

\* The confidence is cut off after two decimal places.
RoundedConfidence_Truncated(t) ==
    (100 * (MIN_SUBMIT_TIME_MS - t)) \div MIN_SUBMIT_TIME_MS

\* round(1.0 - t / MIN_SUBMIT_TIME_MS, 2), in hundredths, for 0 <= t < 2000
RoundedConfidence(t) ==
    LET left == MIN_SUBMIT_TIME_MS - t          \* (1 - t/2000) * 2000
        unit == MIN_SUBMIT_TIME_MS \div 100     \* one hundredth, * 2000
        q    == left \div unit
        r    == left % unit
    IN  IF 2 * r < unit THEN q
        ELSE IF 2 * r > unit THEN q + 1
        ELSE IF t \in HalfwayUp THEN q + 1 ELSE q

\* BotDetectionEngine.check_submit_time(login_data)
check_submit_time(login_data) ==
    LET time_to_submit == login_data.time_to_submit IN
    IF time_to_submit < MIN_SUBMIT_TIME_MS
    THEN [is_bot |-> TRUE,
          rule |-> "submit_time",
          reason |-> "Form submitted too quickly: " \o ToString(time_to_submit)
                     \o "ms (Threshold: " \o ToString(MIN_SUBMIT_TIME_MS) \o "ms)",
          confidence |-> RoundedConfidence(time_to_submit)]
    ELSE [is_bot |-> FALSE,
          rule |-> "submit_time",
          reason |-> "Normal submission time",
          confidence |-> 0]

-----------------------------------------------------------------------------
(* FingerprintAnalyzer *)

\* An exception leaves the check instead of a result.
Raised(exc) == [raised |-> exc]
HasRaised(result) == "raised" \in DOMAIN result

\* suspicious_patterns['headless_chrome'] + suspicious_patterns['automation'],
\* in the order the two loops try them: the text and its characters
UserAgentPatterns ==
    << [text |-> "HeadlessChrome",
        chars |-> <<"H","e","a","d","l","e","s","s","C","h","r","o","m","e">>],
       [text |-> "Headless",
        chars |-> <<"H","e","a","d","l","e","s","s">>],
       [text |-> "PhantomJS",
        chars |-> <<"P","h","a","n","t","o","m","J","S">>],
       [text |-> "Selenium",
        chars |-> <<"S","e","l","e","n","i","u","m">>],
       [text |-> "WebDriver",
        chars |-> <<"W","e","b","D","r","i","v","e","r">>] >>

min_cores == 1

RECURSIVE match_user_agent(_, _)
\* the first pattern found in the user agent, 0 when none is
match_user_agent(user_agent, i) ==
    IF i > Len(UserAgentPatterns) THEN 0
    ELSE IF Contains(Lower(user_agent), Lower(UserAgentPatterns[i].chars)) THEN i
    ELSE match_user_agent(user_agent, i + 1)

FingerprintClear ==
    [is_bot |-> FALSE, reason |-> "", confidence |-> 0, rule |-> "fingerprint"]

\* FingerprintAnalyzer.analyze(fingerprint)
fingerprint_analyze(fingerprint) ==
    LET user_agent == Get(fingerprint, "user_agent", Val(<<>>))
        cores      == Get(fingerprint, "hardware_concurrency", Val(0))
        canvas     == Get(fingerprint, "canvas_hash", Val(""))
    IN  IF IsNull(user_agent) THEN Raised("AttributeError")
        ELSE LET hit == match_user_agent(user_agent.v, 1) IN
             IF hit # 0
             THEN [is_bot |-> TRUE,
                   reason |-> "Suspicious user agent: " \o UserAgentPatterns[hit].text,
                   confidence |-> 95,
                   rule |-> "fingerprint_user_agent"]
             ELSE IF IsNull(cores) THEN Raised("TypeError")
             ELSE IF cores.v < min_cores
             THEN [is_bot |-> TRUE,
                   reason |-> "Impossible hardware: " \o ToString(cores.v) \o " CPU cores",
                   confidence |-> 90,
                   rule |-> "fingerprint_hardware"]
             ELSE IF canvas = Val("canvas_unavailable")
             THEN [is_bot |-> TRUE,
                   reason |-> "Canvas fingerprint unavailable",
                   confidence |-> 70,
                   rule |-> "fingerprint_canvas"]
             ELSE FingerprintClear

-----------------------------------------------------------------------------
(* MouseAnalyzer.  Coordinates and timestamps are integers; a velocity is  *)
(* an integer number of hundredths (10 is 0.1).                            *)

min_movements               == 5
perfect_line_angle_variance == 5
teleport_velocity           == 10
impossible_speed            == 3000
min_line_points             == 10
max_time_delta              == 100
sentinel_variance           == 100

\* MouseAnalyzer._create_result
create_result(is_bot, reason, confidence) ==
    [is_bot |-> is_bot, reason |-> reason, confidence |-> confidence,
     rule |-> "mouse_behavior"]

\* math.degrees(math.atan2(dy, dx)) where it is a whole number of degrees:
\* the eight directions of the compass and the null vector.  The traces of
\* this model move in these directions only.
Angle(dx, dy) ==
    CASE dx = 0 /\ dy = 0      -> 0
      [] dx > 0 /\ dy = 0      -> 0
      [] dx > 0 /\ dy = dx     -> 45
      [] dx = 0 /\ dy > 0      -> 90
      [] dx < 0 /\ dy = -dx    -> 135
      [] dx < 0 /\ dy = 0      -> 180
      [] dx < 0 /\ dy = dx     -> -135
      [] dx = 0 /\ dy < 0      -> -90
      [] dx > 0 /\ dy = -dx    -> -45

RECURSIVE Sum(_)
Sum(seq) == IF seq = <<>> THEN 0 ELSE Head(seq) + Sum(Tail(seq))

\* A non-negative real s whose square is num/den: what statistics.stdev returns.
Root(num, den) == [num |-> num, den |-> den]

\* s < bound, for a whole bound
RootBelow(s, bound) == s.num < bound * bound * s.den

\* MouseAnalyzer._calculate_angle_variance(points): the sample standard
\* deviation of the segment angles; subtracting a None coordinate raises.
calculate_angle_variance(points) ==
    IF Len(points) < 3 THEN Root(sentinel_variance * sentinel_variance, 1)
    ELSE IF \E i \in 1..Len(points) : IsNull(points[i][1]) \/ IsNull(points[i][2])
    THEN Raised("TypeError")
    ELSE LET angles == [i \in 1..(Len(points) - 1) |->
                            Angle(points[i+1][1].v - points[i][1].v,
                                  points[i+1][2].v - points[i][2].v)]
             m  == Len(angles)
             s1 == Sum(angles)
             s2 == Sum([i \in 1..m |-> angles[i] * angles[i]])
         IN  Root(m * s2 - s1 * s1, m * (m - 1))

\* f"{s:.2f}" of a root below perfect_line_angle_variance
FormatRoot(s) ==
    LET h == CHOOSE h \in 0..(100 * perfect_line_angle_variance) :
                 /\ 40000 * s.num < (2 * h + 1) * (2 * h + 1) * s.den
                 /\ h = 0 \/ (2 * h - 1) * (2 * h - 1) * s.den <= 40000 * s.num
    IN  ToString(h \div 100) \o "." \o ToString((h % 100) \div 10) \o ToString(h % 10)

\* MouseAnalyzer._check_perfect_line(events)
check_perfect_line(events) ==
    LET with_xy == SelectSeq(events, LAMBDA e : "x" \in DOMAIN e /\ "y" \in DOMAIN e)
        points  == [i \in 1..Len(with_xy) |-> <<with_xy[i].x, with_xy[i].y>>]
    IN  IF Len(points) < min_line_points THEN create_result(FALSE, "", 0)
        ELSE LET angle_variance == calculate_angle_variance(points) IN
             IF HasRaised(angle_variance) THEN angle_variance
             ELSE IF RootBelow(angle_variance, perfect_line_angle_variance)
             THEN create_result(TRUE,
                      \* "deg" stands for the degree sign of the source
                      "Perfect line movement (variance: " \o FormatRoot(angle_variance)
                          \o "deg)", 90)
             ELSE create_result(FALSE, "", 0)

\* f"{100 * count / total:.1f}"
FormatPercent(count, total) ==
    LET q == (1000 * count) \div total
        r == (1000 * count) % total
        t == IF 2 * r < total THEN q
             ELSE IF 2 * r > total THEN q + 1
             ELSE IF q % 2 = 0 THEN q ELSE q + 1
    IN  ToString(t \div 10) \o "." \o ToString(t % 10)

\* MouseAnalyzer._check_teleporting(events)
check_teleporting(events) ==
    LET with_v     == SelectSeq(events, LAMBDA e : "velocity" \in DOMAIN e)
        velocities == [i \in 1..Len(with_v) |-> with_v[i].velocity]
    IN  IF velocities = <<>> THEN create_result(FALSE, "", 0)
        ELSE IF \E i \in 1..Len(velocities) : IsNull(velocities[i])
        THEN Raised("TypeError")
        ELSE LET zero_count ==
                     Cardinality({i \in 1..Len(velocities) :
                                      velocities[i].v < teleport_velocity})
             IN  IF 2 * zero_count > Len(velocities)
                 THEN create_result(TRUE,
                          "Teleporting cursor ("
                              \o FormatPercent(zero_count, Len(velocities))
                              \o "% zero velocity)", 85)
                 ELSE create_result(FALSE, "", 0)

\* The largest f with f * f <= n, for lo * lo <= n < (hi + 1) * (hi + 1)
RECURSIVE FloorSqrt(_, _, _)
FloorSqrt(n, lo, hi) ==
    IF lo = hi THEN lo
    ELSE LET mid == (lo + hi + 1) \div 2 IN
         IF mid * mid <= n THEN FloorSqrt(n, mid, hi) ELSE FloorSqrt(n, lo, mid - 1)

\* f"{n ** 0.5:.0f}"
FormatSqrt(n) ==
    LET f == FloorSqrt(n, 0, 40000) IN
    ToString(IF n - f * f <= f THEN f ELSE f + 1)

RECURSIVE check_impossible_speed_from(_, _)
check_impossible_speed_from(events, i) ==
    IF i > Len(events) - 1 THEN create_result(FALSE, "", 0)
    ELSE LET e1 == events[i]
             e2 == events[i + 1]
             t1 == Get(e1, "timestamp", Val(0))
             t2 == Get(e2, "timestamp", Val(0))
         IN  IF IsNull(t1) \/ IsNull(t2) THEN Raised("TypeError")
             ELSE LET time_delta == t2.v - t1.v IN
                  IF time_delta >= max_time_delta \/ time_delta <= 0
                  THEN check_impossible_speed_from(events, i + 1)
                  ELSE LET x1 == Get(e1, "x", Val(0))
                           y1 == Get(e1, "y", Val(0))
                           x2 == Get(e2, "x", Val(0))
                           y2 == Get(e2, "y", Val(0))
                       IN  IF IsNull(x1) \/ IsNull(y1) \/ IsNull(x2) \/ IsNull(y2)
                           THEN Raised("TypeError")
                           ELSE LET d2 == (x2.v - x1.v) * (x2.v - x1.v)
                                          + (y2.v - y1.v) * (y2.v - y1.v)
                                IN  IF d2 > impossible_speed * impossible_speed
                                    THEN create_result(TRUE,
                                             "Impossible speed: " \o FormatSqrt(d2)
                                                 \o "px in " \o ToString(time_delta)
                                                 \o "ms", 95)
                                    ELSE check_impossible_speed_from(events, i + 1)

\* MouseAnalyzer._check_impossible_speed(events)
check_impossible_speed(events) == check_impossible_speed_from(events, 1)

\* The teleporting check is made before the perfect-line check.
mouse_analyze_TeleportFirst(mouse_events) ==
    IF mouse_events = <<>> THEN create_result(TRUE, "No mouse movements", 90)
    ELSE IF Len(mouse_events) < min_movements
    THEN create_result(TRUE, "Only " \o ToString(Len(mouse_events)) \o " movements", 80)
    ELSE LET teleport_result == check_teleporting(mouse_events) IN
         IF HasRaised(teleport_result) \/ teleport_result.is_bot THEN teleport_result
         ELSE LET line_result == check_perfect_line(mouse_events) IN
              IF HasRaised(line_result) \/ line_result.is_bot THEN line_result
              ELSE LET speed_result == check_impossible_speed(mouse_events) IN
                   IF HasRaised(speed_result) \/ speed_result.is_bot THEN speed_result
                   ELSE create_result(FALSE, "", 0)

\* MouseAnalyzer.analyze, given what get_session_events(session_id,
\* 'mousemove') returned
mouse_analyze(mouse_events) ==
    IF mouse_events = <<>> THEN create_result(TRUE, "No mouse movements", 90)
    ELSE IF Len(mouse_events) < min_movements
    THEN create_result(TRUE, "Only " \o ToString(Len(mouse_events)) \o " movements", 80)
    ELSE LET line_result == check_perfect_line(mouse_events) IN
         IF HasRaised(line_result) \/ line_result.is_bot THEN line_result
         ELSE LET teleport_result == check_teleporting(mouse_events) IN
              IF HasRaised(teleport_result) \/ teleport_result.is_bot THEN teleport_result
              ELSE LET speed_result == check_impossible_speed(mouse_events) IN
                   IF HasRaised(speed_result) \/ speed_result.is_bot THEN speed_result
                   ELSE create_result(FALSE, "", 0)

-----------------------------------------------------------------------------
(* BotDetectionEngine.analyze_session *)

Checks == <<"honeypot_form", "honeypot_interaction", "mouse", "submit_time", "fingerprint">>

CheckNames == {Checks[i] : i \in 1..Len(Checks)}

\* A check that has not been reached, and the fingerprint check of a
\* session that has no session record.
NotRun  == [not_run |-> TRUE]

IsResult(r) == "is_bot" \in DOMAIN r

\* `flags: List[Dict[str, Any]] = []`
\* The list of an earlier call is used again.
InitialFlags_Stale == flags

InitialFlags == <<>>

\* `if result['is_bot']: flags.append(result)`
Collect(fl, result) == IF result.is_bot THEN Append(fl, result) ELSE fl

\* Equal confidences end up in reverse order.
InsertFlag_BeforeEqual(sorted, f) ==
    LET k == Cardinality({i \in 1..Len(sorted) : sorted[i].confidence > f.confidence})
    IN  SubSeq(sorted, 1, k) \o <<f>> \o SubSeq(sorted, k + 1, Len(sorted))

\* One step of the stable sort: f goes behind every flag that does not
\* rank below it.
InsertFlag(sorted, f) ==
    LET k == Cardinality({i \in 1..Len(sorted) : sorted[i].confidence >= f.confidence})
    IN  SubSeq(sorted, 1, k) \o <<f>> \o SubSeq(sorted, k + 1, Len(sorted))

RECURSIVE SortInto(_, _)
SortInto(sorted, rest) ==
    IF rest = <<>> THEN sorted ELSE SortInto(InsertFlag(sorted, Head(rest)), Tail(rest))

\* flags.sort(key=lambda x: x['confidence'], reverse=True)
sort_by_confidence(fl) == SortInto(<<>>, fl)

\* The confidence of the first flag collected is taken.
MaxOf_First(seq) == Head(seq)

\* max(...)
RECURSIVE MaxOf(_)
MaxOf(seq) ==
    IF Len(seq) = 1 THEN Head(seq)
    ELSE LET m == MaxOf(Tail(seq)) IN IF Head(seq) >= m THEN Head(seq) ELSE m

\* The reason is taken from the list before it is sorted.
primary_reason_BeforeSort(fl, sorted) ==
    IF fl # <<>> THEN fl[1].reason ELSE "Human behavior detected"

\* `primary_reason = flags[0]['reason']` after the sort, else the sentinel
primary_reason(fl, sorted) ==
    IF fl # <<>> THEN sorted[1].reason ELSE "Human behavior detected"

\* The returned dict.
MakeVerdict(fl, timestamp) ==
    LET is_bot         == Len(fl) > 0
        max_confidence == IF fl # <<>>
                          THEN MaxOf([i \in 1..Len(fl) |-> fl[i].confidence])
                          ELSE 0
        sorted         == IF fl # <<>> THEN sort_by_confidence(fl) ELSE fl
    IN  [is_bot |-> is_bot,
         confidence |-> max_confidence,
         flags |-> sorted,
         reason |-> primary_reason(fl, sorted),
         timestamp |-> timestamp]

\* next((s for s in sessions if s.get('session_id') == session_id), None)
FindSession(sessions, sid) ==
    LET hits == SelectSeq(sessions, LAMBDA rec : Get(rec, "session_id", Null) = Val(sid))
    IN  IF hits = <<>> THEN Null ELSE Val(hits[1])

-----------------------------------------------------------------------------
(* Inputs of the engine *)

\* A pointer-move event as the ingestion path stores it.
Move(sid, ts, x, y, velocity) ==
    [session_id |-> Val(sid), event_type |-> Val("mousemove"), timestamp |-> Val(ts),
     x |-> x, y |-> y, velocity |-> velocity, is_honeypot |-> Val(FALSE)]

\* The i-th event of a cursor trace of a given shape.
TraceEvent(shape, i) ==
    CASE shape = "line"     -> Move("s1", 200 * i, Val(10 * i), Val(10 * i), Val(50))
      [] shape = "zigzag"   -> Move("s1", 200 * i, Val(10 * i), Val(10 * (i % 2)), Val(50))
      [] shape = "still"    -> Move("s1", 200 * i, Val(10 * i), Val(10 * (i % 2)), Val(0))
      [] shape = "jump"     -> Move("s1", 50 * i, Val(4000 * (i % 2)), Val(0), Val(50))
      [] shape = "nullvel"  -> Move("s1", 200 * i, Val(10 * i), Val(10 * (i % 2)),
                                    IF i = 1 THEN Null ELSE Val(50))
      [] shape = "nullxy"   -> Move("s1", 50 * i, IF i = 2 THEN Null ELSE Val(10 * i),
                                    Val(10 * (i % 2)), Val(50))
      [] shape = "bare"     -> [session_id |-> Val("s1"), event_type |-> Val("mousemove"),
                                timestamp |-> Val(200 * i)]
      [] shape = "stillline" -> Move("s1", 200 * i, Val(10 * i), Val(10 * i), Val(0))
      [] shape = "dash"      -> Move("s1", 50 * i, Val(4000 * i), Val(0), Val(50))
      [] shape = "stilljump" -> Move("s1", 50 * i, Val(4000 * (i % 2)), Val(0), Val(0))

Shapes == {"line", "zigzag", "still", "jump", "nullvel", "nullxy", "bare"}

\* Shapes on which more than one check of the mouse analyzer triggers.
MixedShapes == {"stillline", "dash", "stilljump"}

Trace(shape, n) == [i \in 1..n |-> TraceEvent(shape, i)]

HoneypotFocus == [session_id |-> Val("s1"), event_type |-> Val("honeypot_focus"),
                  timestamp |-> Val(0), is_honeypot |-> Val(FALSE)]
HiddenClick   == [session_id |-> Val("s1"), event_type |-> Val("click"),
                  timestamp |-> Val(0), is_honeypot |-> Val(TRUE)]
OtherSession  == [session_id |-> Val("s2"), event_type |-> Val("honeypot_filled"),
                  timestamp |-> Val(0), is_honeypot |-> Val(TRUE)]

\* The event histories the engine starts from: traces of every shape with
\* min_movements events, longer and shorter traces, and histories with
\* honeypot interactions and events of another session.
EventHistories ==
    {Trace(shape, min_movements) : shape \in Shapes}
    \cup {Trace(shape, MaxMoves) : shape \in {"line", "zigzag", "nullxy"}}
    \cup {Trace("zigzag", n) : n \in {0, min_movements - 1}}
    \cup {<<OtherSession, HiddenClick, HoneypotFocus>> \o Trace("zigzag", min_movements),
          <<HoneypotFocus, HiddenClick>>,
          <<OtherSession>> \o Trace("line", MaxMoves)}

CleanFingerprint ==
    [user_agent |-> Val(<<"M", "o", "z", "i", "l", "l", "a">>),
     hardware_concurrency |-> Val(8), canvas_hash |-> Val("a1b2")]

HeadlessFingerprint ==
    [CleanFingerprint EXCEPT !.user_agent = Val(<<"x", " ", "H", "E", "A", "D", "L", "E", "S", "S">>)]

\* A fingerprint without user agent and core count: the defaults apply.
BareFingerprint == [canvas_hash |-> Null]

Fingerprints ==
    {CleanFingerprint, HeadlessFingerprint, BareFingerprint,
     [CleanFingerprint EXCEPT !.user_agent = Val(<<"s", "e", "l", "e", "n", "i", "u", "m", "/", "4">>)],
     [CleanFingerprint EXCEPT !.canvas_hash = Val("canvas_unavailable")],
     [CleanFingerprint EXCEPT !.user_agent = Null],
     [CleanFingerprint EXCEPT !.hardware_concurrency = Null]}

\* A session record (SessionMetadata): the fingerprint is a required field.
SessionRecord(sid, fingerprint) == [session_id |-> Val(sid), fingerprint |-> fingerprint]

SessionHistories ==
    {<<>>}
    \cup {<<SessionRecord("s1", fp)>> : fp \in Fingerprints}
    \cup {<<SessionRecord("s2", [canvas_hash |-> Null]), SessionRecord("s1", CleanFingerprint),
            SessionRecord("s1", BareFingerprint)>>}

\* The file that holds these records, one whole line each.
FileOf(records) == Flatten([i \in 1..Len(records) |-> json_dumps_line(records[i])])

TimePool == {0, 1999, MIN_SUBMIT_TIME_MS}

BlankLogin(t) ==
    [time_to_submit |-> t, website |-> Val(<<>>), email_confirm |-> Val(<<>>),
     bot_field |-> Val(<<>>), verify |-> Val(<<>>)]

Logins ==
    {BlankLogin(t) : t \in TimePool}
    \cup {[BlankLogin(t) EXCEPT !.website = Val(<<"h", "t", "t", "p">>),
                                !.verify = Val(<<"v">>)] : t \in {0, MIN_SUBMIT_TIME_MS}}
    \cup {[BlankLogin(MIN_SUBMIT_TIME_MS) EXCEPT !.website = Val(<<" ">>),
                                                 !.email_confirm = Null,
                                                 !.bot_field = Val(<<" ", "b", " ">>)]}

\* What of the files a call of analyze_session reads.
Read(fs) == [events |-> fs["events"], sessions |-> fs["sessions"]]

\* The histories a behaviour starts from: every event history with a clean
\* session record, and every session history with an event history of each
\* mouse confidence.
Histories ==
    {[events |-> ev, sessions |-> <<SessionRecord("s1", CleanFingerprint)>>] :
        ev \in EventHistories}
    \cup {[events |-> ev, sessions |-> ss] :
            ev \in {<<>>, Trace("jump", min_movements)},
            ss \in SessionHistories}

\* The files that hold a history.
Stored(h) == [k \in FileKeys |-> IF k = "events" THEN FileOf(h.events)
                                 ELSE IF k = "sessions" THEN FileOf(h.sessions)
                                 ELSE <<>>]

Init ==
    /\ files \in {Stored(h) : h \in Histories}
    /\ lock = 0
    /\ wpc = [w \in Writers |-> "idle"]
    /\ wkey = [w \in Writers |-> "events"]
    /\ wdata = [w \in Writers |-> Unserializable]
    /\ wpos = [w \in Writers |-> 0]
    /\ wsnap = [w \in Writers |-> <<>>]
    /\ wret = [w \in Writers |-> "none"]
    /\ appendsLeft = MaxIngest
    /\ rout = NoRead
    /\ EngineIdle
    /\ runsLeft = MaxRuns

-----------------------------------------------------------------------------
(* analyze_session, one action per check *)

CallEnded(p) == p \in {"done", "aborted"}

\* What is remembered of the call that has just ended.
Outcome == IF pc = "idle" THEN NoRun
           ELSE [ran |-> TRUE, session_id |-> arg_session_id, login_data |-> arg_login_data,
                 started |-> started, pc |-> pc, verdict |-> verdict]

\* analyze_session(session_id, login_data) is called.
Start(sid, login) ==
    /\ pc = "idle" \/ CallEnded(pc)
    /\ runsLeft > 0
    /\ runsLeft' = runsLeft - 1
    /\ prev' = Outcome
    /\ arg_session_id' = sid
    /\ arg_login_data' = login
    /\ started' = Read(files)
    /\ res' = [c \in CheckNames |-> NotRun]
    /\ flags' = InitialFlags
    /\ verdict' = NoRun
    /\ pc' = "honeypot_form"
    /\ UNCHANGED <<storeVars, now>>

\* A check has returned its result, or has raised.
Checked(check, result, next) ==
    /\ res' = [res EXCEPT ![check] = result]
    /\ IF HasRaised(result)
       THEN pc' = "aborted" /\ flags' = flags
       ELSE pc' = next /\ flags' = Collect(flags, result)
    /\ UNCHANGED <<storeVars, arg_session_id, arg_login_data, started, verdict, now, prev, runsLeft>>

\* 1. honeypot_detector.check_form(login_data)
CheckForm ==
    /\ pc = "honeypot_form"
    /\ Checked("honeypot_form", check_form(arg_login_data), "honeypot_interaction")

\* 2. await honeypot_detector.check_interactions(session_id)
CheckInteractions ==
    /\ pc = "honeypot_interaction"
    /\ Checked("honeypot_interaction",
               check_interactions(get_session_events(files["events"], arg_session_id, Null)),
               "mouse")

\* The mouse scan reads the events file as it was when the call began.
MouseScanned_AtStart == started.events

\* The events file as the scan of the mouse analyzer finds it.
MouseScanned == files["events"]

\* 2. await mouse_analyzer.analyze(session_id)
AnalyzeMouse ==
    /\ pc = "mouse"
    /\ Checked("mouse",
               mouse_analyze(get_session_events(MouseScanned, arg_session_id,
                                                Val("mousemove"))),
               "submit_time")

\* 3. check_submit_time(login_data)
CheckSubmitTime ==
    /\ pc = "submit_time"
    /\ Checked("submit_time", check_submit_time(arg_login_data), "fingerprint")

\* 4. await storage.read_all('sessions'), then fingerprint_analyzer.analyze
AnalyzeFingerprint ==
    /\ pc = "fingerprint"
    /\ LET sessions     == read_all(files["sessions"], Null)
           session_data == FindSession(sessions, arg_session_id)
       IN  IF ~IsNull(session_data) /\ "fingerprint" \in DOMAIN session_data.v
           THEN Checked("fingerprint", fingerprint_analyze(session_data.v.fingerprint),
                        "aggregate")
           ELSE /\ pc' = "aggregate"
                /\ UNCHANGED <<storeVars, arg_session_id, arg_login_data, started, res, flags,
                               verdict, now, prev, runsLeft>>

\* Result aggregation; the timestamp is the clock at that moment.
Aggregate ==
    /\ pc = "aggregate"
    /\ \E timestamp \in now..MaxClock :
          /\ now' = timestamp
          /\ verdict' = MakeVerdict(flags, timestamp)
          /\ flags' = verdict'.flags
    /\ pc' = "done"
    /\ UNCHANGED <<storeVars, arg_session_id, arg_login_data, started, res, prev, runsLeft>>

\* The histories against which every login is submitted: those in which
\* the mouse and fingerprint checks trigger with each of two confidences or
\* the fingerprint check is not made, and one in which neither triggers.
LoginHistories ==
    {[events |-> ev, sessions |-> ss] :
        ev \in {<<>>, Trace("jump", min_movements)},
        ss \in {<<>>} \cup {<<SessionRecord("s1", fp)>> :
                                fp \in {HeadlessFingerprint, BareFingerprint}}}
    \cup {[events |-> Trace("zigzag", min_movements),
           sessions |-> <<SessionRecord("s1", CleanFingerprint)>>]}

\* The histories that hold an event or a session record of session s2.
OfOtherSession(h) ==
    \/ \E i \in 1..Len(h.events) : h.events[i].session_id = Val("s2")
    \/ \E i \in 1..Len(h.sessions) : h.sessions[i].session_id = Val("s2")

\* The requests callers make: the in-time blank login of session s1 against
\* every history, every login of session s1 against the histories of
\* LoginHistories, and a request of session s2 against the histories that
\* hold records of s2.
Requests(fs) ==
    {<<"s1", BlankLogin(MIN_SUBMIT_TIME_MS)>>}
    \cup (IF fs \in {Stored(h) : h \in LoginHistories}
          THEN {<<"s1", login>> : login \in Logins}
          ELSE {})
    \cup (IF fs \in {Stored(h) : h \in {g \in Histories : OfOtherSession(g)}}
          THEN {<<"s2", BlankLogin(0)>>}
          ELSE {})

\* The caller submits a request.
Analyze == pc = "idle" /\ \E req \in Requests(files) : Start(req[1], req[2])

\* The caller submits the same request again.
AnalyzeAgain == CallEnded(pc) /\ Start(arg_session_id, arg_login_data)

\* Records arrive while the engine analyses, one append call at a time: the
\* lock lets one call write at a time, and the calls that wait for it or
\* fail leave the files as they are.  What was appended before the first
\* analysis is in Init; what is appended after the last one is read by no one.
Ingest(w) ==
    /\ \A v \in Writers : v # w => wpc[v] = "idle"
    /\ \/ /\ pc # "idle"
          /\ runsLeft > 0 \/ ~CallEnded(pc)
          /\ \E data \in {d \in AppendPool("events") : Serializable(d)} :
                AppendCall(w, "events", data)
       \/ AcquireLock(w)
       \/ OpenFile(w)
       \/ WritePiece(w)
       \/ ReturnTrue(w)

Next ==
    \/ Analyze
    \/ AnalyzeAgain
    \/ CheckForm
    \/ CheckInteractions
    \/ AnalyzeMouse
    \/ CheckSubmitTime
    \/ AnalyzeFingerprint
    \/ Aggregate
    \/ \E w \in Writers : Ingest(w)

Spec == Init /\ [][Next]_vars

-----------------------------------------------------------------------------
(* The detectors on their own: one call of a check per behaviour *)

MaxElapsed == 2100   \* largest elapsed submit time, in ms

\* No append is under way and no analysis has been asked for.
DetectorInit(fs) ==
    /\ files = fs
    /\ lock = 0
    /\ wpc = [w \in Writers |-> "idle"]
    /\ wkey = [w \in Writers |-> "events"]
    /\ wdata = [w \in Writers |-> Unserializable]
    /\ wpos = [w \in Writers |-> 0]
    /\ wsnap = [w \in Writers |-> <<>>]
    /\ wret = [w \in Writers |-> "none"]
    /\ appendsLeft = 0
    /\ rout = NoRead
    /\ EngineIdle
    /\ runsLeft = 0

\* engine.check_submit_time(login_data) for a login with that elapsed time
SubmitTimeChecked(t) ==
    /\ rout = NoRead
    /\ rout' = [op |-> "check_submit_time", time_to_submit |-> t,
                result |-> check_submit_time(BlankLogin(t))]
    /\ UNCHANGED <<files, lock, wpc, wkey, wdata, wpos, wsnap, wret, appendsLeft, engineVars>>

TimingInit == DetectorInit([k \in FileKeys |-> <<>>])

TimingNext == \E t \in 0..MaxElapsed : SubmitTimeChecked(t)

TimingSpec == TimingInit /\ [][TimingNext]_vars

\* The event histories the mouse analyzer is called on: a trace of every
\* shape and length, alone and after events that are not pointer moves of
\* the session.
MouseHistories ==
    {before \o Trace(shape, n) :
        before \in {<<>>, <<OtherSession, HiddenClick>>},
        shape \in Shapes \cup MixedShapes,
        n \in 0..MaxMoves}

\* await mouse_analyzer.analyze(session_id)
MouseAnalyzed(sid) ==
    /\ rout = NoRead
    /\ rout' = [op |-> "mouse_analyze", session_id |-> sid,
                result |-> mouse_analyze(get_session_events(files["events"], sid,
                                                            Val("mousemove")))]
    /\ UNCHANGED <<files, lock, wpc, wkey, wdata, wpos, wsnap, wret, appendsLeft, engineVars>>

MouseInit ==
    \E h \in MouseHistories : DetectorInit(Stored([events |-> h, sessions |-> <<>>]))

MouseNext == \E sid \in SessionIds : MouseAnalyzed(sid)

MouseSpec == MouseInit /\ [][MouseNext]_vars

-----------------------------------------------------------------------------
(* Properties of the store *)

InFlight == {w \in Writers : wpc[w] \in {"open", "write", "close"}}

\* A line as a whole append leaves it, or as the store found it at start.
WholeLine(line) == Decodes(line) \/ line = BlankLine \/ line = JunkLine

AppendEnded(w) == wpc[w] = "idle" /\ wret[w] # "none"

-----------------------------------------------------------------------------
(* Properties of the reads *)

\* The records of the well-formed lines of a file, in file order.
WellFormed(content) ==
    LET good == SelectSeq(Lines(content), Decodes)
    IN  [i \in 1..Len(good) |-> good[i][1].data]

FirstN(seq, n) == SubSeq(seq, 1, IF n < Len(seq) THEN n ELSE Len(seq))

\* C10: read_all returns the well-formed records in append order, skipping
\* malformed lines, and with a limit n >= 0 the first n of them.
C10_ReadAllHonoursLimit ==
    (rout.op = "read_all" /\ rout.key \in FileKeys) =>
        rout.result = IF IsNull(rout.limit)
                      THEN WellFormed(files[rout.key])
                      ELSE FirstN(WellFormed(files[rout.key]), rout.limit.v)

-----------------------------------------------------------------------------
(* Properties of the engine *)

\* The checks that have returned a result in the current call, in the order
\* of their evaluation, and those of them that triggered.
Returned  == SelectSeq(Checks, LAMBDA c : IsResult(res[c]))
Triggered == SelectSeq(Checks, LAMBDA c : IsResult(res[c]) /\ res[c].is_bot)

\* The place of a flag of the verdict in the order of evaluation.
Position(flag) == CHOOSE k \in 1..Len(Checks) : res[Checks[k]] = flag

\* C1: in every verdict, is_bot holds exactly when the flags list is not
\* empty, and confidence is the largest confidence of a flag in the list,
\* or 0.0 when the list is empty.
C1_VerdictSummarizesFlags ==
    pc = "done" =>
        /\ verdict.is_bot = (verdict.flags # <<>>)
        /\ IF verdict.flags = <<>>
           THEN verdict.confidence = 0
           ELSE /\ \A i \in 1..Len(verdict.flags) :
                      verdict.flags[i].confidence <= verdict.confidence
                /\ \E i \in 1..Len(verdict.flags) :
                      verdict.flags[i].confidence = verdict.confidence

\* C1 witness: a verdict with flags of different confidences, the first
\* of which to be collected is not the most confident.
C1_Witness ==
    /\ pc = "done"
    /\ Len(Triggered) >= 2
    /\ res[Triggered[1]].confidence < verdict.confidence

\* C2: in every verdict the flags are in order of descending confidence, and
\* flags of equal confidence are in the order in which their checks were
\* evaluated.
C2_FlagsSortedStably ==
    pc = "done" =>
        \A i, j \in 1..Len(verdict.flags) :
            i < j => \/ verdict.flags[i].confidence > verdict.flags[j].confidence
                     \/ /\ verdict.flags[i].confidence = verdict.flags[j].confidence
                        /\ Position(verdict.flags[i]) < Position(verdict.flags[j])

\* C2 witness: a verdict in which two flags have the same confidence and a
\* third, evaluated before one of them, has a lower one and comes after it.
C2_Witness ==
    /\ pc = "done"
    /\ \E i, j \in 1..Len(verdict.flags) :
          i < j /\ verdict.flags[i].confidence = verdict.flags[j].confidence
    /\ \E i, j \in 1..Len(verdict.flags) :
          i < j /\ Position(verdict.flags[i]) > Position(verdict.flags[j])

\* A session record with a fingerprint exists for the session of the call.
HasFingerprint ==
    \E i \in 1..Len(read_all(files["sessions"], Null)) :
        LET rec == read_all(files["sessions"], Null)[i] IN
        /\ Get(rec, "session_id", Null) = Val(arg_session_id)
        /\ "fingerprint" \in DOMAIN rec

\* The flags of the verdict are exactly the results of the checks that
\* triggered.
FlagsAreTheTriggered ==
    /\ Len(verdict.flags) = Len(Triggered)
    /\ \A i \in 1..Len(Triggered) :
          \E j \in 1..Len(verdict.flags) : verdict.flags[j] = res[Triggered[i]]

\* C3: a call of analyze_session that has ended has evaluated the
\* honeypot-form, honeypot-interaction, mouse and timing checks, whatever the
\* earlier checks came to, and the fingerprint check if a session record with
\* a fingerprint exists; its verdict holds exactly the flags of the checks
\* that triggered.
C3_AllChecksEvaluated ==
    CallEnded(pc) =>
        /\ \A c \in {"honeypot_form", "honeypot_interaction", "mouse", "submit_time"} :
              IsResult(res[c])
        /\ HasFingerprint => IsResult(res["fingerprint"])
        /\ pc = "done"
        /\ FlagsAreTheTriggered

\* In the calls in which no check raises, C3 holds: a triggered flag never
\* ends the evaluation early.
NoShortCircuitOnTrigger ==
    pc = "done" =>
        /\ \A c \in {"honeypot_form", "honeypot_interaction", "mouse", "submit_time"} :
              IsResult(res[c])
        /\ HasFingerprint <=> IsResult(res["fingerprint"])
        /\ FlagsAreTheTriggered

\* C4: a call of analyze_session in which a check has raised still ends by
\* returning a verdict, whose flags are those of the other checks that
\* triggered.
C4_FailingCheckDoesNotAbort ==
    (CallEnded(pc) /\ \E c \in CheckNames : HasRaised(res[c])) =>
        /\ pc = "done"
        /\ FlagsAreTheTriggered

\* The fields of a verdict other than the timestamp.
Timeless(v) == [is_bot |-> v.is_bot, confidence |-> v.confidence,
                flags |-> v.flags, reason |-> v.reason]

\* The call that has just ended repeats the previous call, and neither the
\* events file nor the sessions file has changed since that call began.
Repeated ==
    /\ pc = "done"
    /\ prev.ran /\ prev.pc = "done"
    /\ prev.session_id = arg_session_id
    /\ prev.login_data = arg_login_data
    /\ prev.started = Read(files)

\* C7: two calls of analyze_session with the same session and submission,
\* between and during which the event history and the session records do
\* not change, return verdicts that agree in every field but the timestamp.
C7_RepeatedAnalysisAgrees ==
    Repeated => Timeless(verdict) = Timeless(prev.verdict)

\* C7 witness: a repeated call has returned a bot verdict with a later
\* timestamp than the first one.
C7_Witness ==
    /\ Repeated
    /\ verdict.is_bot
    /\ verdict.timestamp > prev.verdict.timestamp

\* C8 as stated: every check that has returned without triggering has
\* returned confidence 0.0 and an empty reason.
C8_ClearResultIsEmpty ==
    pc # "idle" =>
        \A c \in CheckNames :
            (IsResult(res[c]) /\ ~res[c].is_bot) =>
                res[c].confidence = 0 /\ res[c].reason = ""

\* C8 amended: every check that has returned without triggering has
\* returned confidence 0.0; its reason is empty, except for the submission
\* timing check, whose reason is "Normal submission time".
C8_ClearResultHasNoConfidence ==
    pc # "idle" =>
        \A c \in CheckNames :
            (IsResult(res[c]) /\ ~res[c].is_bot) =>
                /\ res[c].confidence = 0
                /\ res[c].reason = IF c = "submit_time" THEN "Normal submission time"
                                   ELSE ""

\* C8 witness: all five checks have returned and none has triggered.
C8_Witness ==
    /\ pc = "done"
    /\ Len(Returned) = Len(Checks)
    /\ Triggered = <<>>

-----------------------------------------------------------------------------
(* Properties of the detectors *)

\* C11: the submission timing check triggers exactly when the elapsed time
\* is below the threshold of 2000 ms; its confidence is then the hundredth
\* nearest to 1.0 - elapsed/2000 (1.0 at 0 ms, 0.5 at 1000 ms); at 2000 ms
\* and above it does not trigger and its confidence is 0.0.
C11_SubmitTimeConfidence ==
    rout.op = "check_submit_time" =>
        LET t == rout.time_to_submit
            r == rout.result
            T == MIN_SUBMIT_TIME_MS
        IN  /\ r.is_bot = (t < T)
            /\ IF t < T
               THEN /\ 2 * (r.confidence * T - 100 * (T - t)) <= T
                    /\ 2 * (100 * (T - t) - r.confidence * T) <= T
                    /\ t = 0 => r.confidence = 100
                    /\ t = 1000 => r.confidence = 50
               ELSE r.confidence = 0

\* C11 witness: the check has triggered at an elapsed time whose confidence
\* lies halfway between two hundredths, and has returned the lower one.
C11_Witness ==
    /\ rout.op = "check_submit_time"
    /\ rout.time_to_submit = 1010
    /\ rout.result.is_bot
    /\ rout.result.confidence = 49

\* The pointer moves of the session the mouse analyzer was called for.
MouseEvents == get_session_events(files["events"], rout.session_id, Val("mousemove"))

\* A check of the mouse analyzer has triggered on these events.
Fires(result) == IsResult(result) /\ result.is_bot

\* C12: when the mouse analyzer returns, it returns one result: that of the
\* first check to trigger in the order no-movement (0.9), too-few-movements
\* (0.8), perfect-line (0.9), teleportation (0.85), impossible-speed (0.95),
\* whatever the later checks would find; if none triggers, not-bot with
\* confidence 0.0.
C12_FirstTriggeredMouseCheckWins ==
    (rout.op = "mouse_analyze" /\ IsResult(rout.result)) =>
        LET r  == rout.result
            ev == MouseEvents
        IN  /\ r.rule = "mouse_behavior"
            /\ IF ev = <<>>
               THEN r.is_bot /\ r.confidence = 90 /\ r.reason = "No mouse movements"
               ELSE IF Len(ev) < min_movements
               THEN r.is_bot /\ r.confidence = 80
               ELSE IF Fires(check_perfect_line(ev))
               THEN r = check_perfect_line(ev) /\ r.confidence = 90
               ELSE IF Fires(check_teleporting(ev))
               THEN r = check_teleporting(ev) /\ r.confidence = 85
               ELSE IF Fires(check_impossible_speed(ev))
               THEN r = check_impossible_speed(ev) /\ r.confidence = 95
               ELSE ~r.is_bot /\ r.confidence = 0 /\ r.reason = ""

\* C12 witness: on a trace on which the perfect-line, the teleportation
\* and no other check trigger, the analyzer has returned the perfect-line
\* result.
C12_Witness ==
    /\ rout.op = "mouse_analyze"
    /\ IsResult(rout.result)
    /\ Len(MouseEvents) >= min_line_points
    /\ Fires(check_perfect_line(MouseEvents))
    /\ Fires(check_teleporting(MouseEvents))
    /\ rout.result = check_perfect_line(MouseEvents)

-----------------------------------------------------------------------------
(* Properties of the verdict *)

\* C13 as stated: the reason of a verdict is the reason of the first flag
\* of its sorted flags list, a flag of the highest confidence, and
\* "human behavior detected" when no flag triggered.
C13_PrimaryReasonIsFirstFlag ==
    pc = "done" =>
        IF verdict.flags # <<>>
        THEN /\ verdict.reason = verdict.flags[1].reason
             /\ verdict.flags[1].confidence = verdict.confidence
        ELSE verdict.reason = "human behavior detected"

\* C13 amended: the reason of a verdict is the reason of the first flag of
\* its sorted flags list, a flag of the highest confidence, and
\* "Human behavior detected", with a capital H, when no flag triggered.
C13_PrimaryReasonOrSentinel ==
    pc = "done" =>
        IF verdict.flags # <<>>
        THEN /\ verdict.reason = verdict.flags[1].reason
             /\ verdict.flags[1].confidence = verdict.confidence
        ELSE verdict.reason = "Human behavior detected"

\* C13 witness: a verdict with several flags whose reason is not that of
\* the flag that was collected first.
C13_Witness ==
    /\ pc = "done"
    /\ Len(verdict.flags) >= 2
    /\ verdict.reason = verdict.flags[1].reason
    /\ verdict.reason # res[Triggered[1]].reason

\* C14: every flag of a verdict has a confidence above 0, and so a verdict
\* with is_bot true has a confidence above 0.0, whatever the elapsed submit
\* time, those just below the threshold included.
C14_TriggeredFlagsArePositive ==
    pc = "done" =>
        /\ verdict.is_bot => verdict.confidence > 0
        /\ \A i \in 1..Len(verdict.flags) : verdict.flags[i].confidence > 0

-----------------------------------------------------------------------------
(* Properties of an analysis during ingestion *)

\* What analyze_session returns, but for the timestamp, when the
\* honeypot-interaction scan finds one events file and the mouse scan
\* another; no verdict if a check raises.
AnalysisOf(interaction_file, mouse_file, sessions_file, sid, login) ==
    LET sessions     == read_all(sessions_file, Null)
        session_data == FindSession(sessions, sid)
        results == <<check_form(login),
                     check_interactions(get_session_events(interaction_file, sid, Null)),
                     mouse_analyze(get_session_events(mouse_file, sid, Val("mousemove"))),
                     check_submit_time(login),
                     IF ~IsNull(session_data) /\ "fingerprint" \in DOMAIN session_data.v
                     THEN fingerprint_analyze(session_data.v.fingerprint)
                     ELSE NotRun>>
    IN  IF \E i \in 1..Len(results) : HasRaised(results[i])
        THEN [aborted |-> TRUE]
        ELSE Timeless(MakeVerdict(SelectSeq(results, LAMBDA r : IsResult(r) /\ r.is_bot), 0))

\* The events file as it has been at some moment since the call began: the
\* log only grows, and a scan reads a line that is still being written as
\* it reads the log without that line.
LogSince(n) == SubSeq(files["events"], 1, n)
Moments == {n \in Len(started.events)..Len(files["events"]) :
                n = Len(started.events) \/ EndsLine(files["events"][n])}

\* C15 as stated: the verdict of a call, but for the timestamp, is the
\* verdict of an analysis of one prefix of the events log that existed at
\* some moment of the call, whatever appends went on during the call.
C15_VerdictMatchesOneSnapshot ==
    pc = "done" =>
        \E n \in Moments :
            Timeless(verdict) = AnalysisOf(LogSince(n), LogSince(n), started.sessions,
                                           arg_session_id, arg_login_data)

\* C15 amended: the verdict a call returns, but for the timestamp, is the
\* aggregation of a honeypot-interaction result computed on one prefix of
\* the events log that existed during the call and of a mouse result
\* computed on the same or a later such prefix.
C15_VerdictMatchesOrderedScans ==
    [][(pc = "aggregate" /\ pc' = "done") =>
          \E n1 \in Moments : \E n2 \in Moments :
              /\ n1 <= n2
              /\ Timeless(verdict') = AnalysisOf(LogSince(n1), LogSince(n2),
                                                 started.sessions,
                                                 arg_session_id, arg_login_data)]_vars

\* C15 witness: a call has returned a verdict that is the verdict of no
\* single prefix of the events log, an event having been appended between
\* its two scans.
C15_Witness ==
    /\ pc = "done"
    /\ Len(files["events"]) > Len(started.events)
    /\ \A n \in Moments :
          Timeless(verdict) # AnalysisOf(LogSince(n), LogSince(n), started.sessions,
                                         arg_session_id, arg_login_data)

====
